---- MODULE Spec2Model ----
(***************************************************************************)
(* The ordered parallel functor pool of windpyutils                         *)
(* (src/windpyutils/parallel/own_proc_pools.py): FunctorWorker processes,   *)
(* the FunctorPool that feeds them through a bounded work queue and reads   *)
(* an unbounded results queue, and the order-restoring Buffer that imap     *)
(* uses.  The Buffer class (windpyutils.buffers) is not among the sources;  *)
(* it is modelled from section 4.1 of the specification.                    *)
(***************************************************************************)
EXTENDS Integers, Sequences, FiniteSets, TLC

\* ------------------------------------------------------------------ bounds
MaxWorkers == 2
MaxLen == 3
MaxChunk == 2
MaxCalls == 2
MaxSubmits == 4

VARIABLES
    procs,          \* len(self.procs): the number of workers of the pool
    cpc,            \* where the caller (the orchestrating process) is
    stopped,        \* __exit__ has returned
    work_queue,     \* self._work_queue, a Queue(len(workers))
    results_queue,  \* self._results_queue, a Queue()
    wpc,            \* where each worker process is in run()
    held,           \* the q_item a worker took from the work queue
    begin_finished, \* each worker's begin_finished Event
    taken,          \* how many None sentinels each worker has taken
    sent,           \* how many None sentinels __exit__ has put
    joined,         \* how many workers __exit__ has joined
    calls,          \* imap calls made so far
    data,           \* imap: the input of the current call
    chunk_size,     \* imap: its chunk_size
    bad,            \* the items on which the functor raises
    data_cnt,       \* imap: data_cnt (also the i of enumerate)
    finished_cnt,   \* imap: finished_cnt
    phase,          \* imap: "dispatch" (lines 161-175) or "drain" (177-182)
    buffer,         \* imap: the Buffer of the call
    rel,            \* imap: chunks the Buffer released, not yet iterated
    cur,            \* imap: items of the chunk being yielded, not yet yielded
    out,            \* what the current imap call has yielded to its caller
    dispatched,     \* the chunks the current imap call has put, in order
    submitted,      \* Buffer alone: the payload submitted under each number
    log,            \* Buffer alone: every payload released so far
    waited,         \* until_all_ready: how many workers it has waited for
    ended           \* how many times each worker's end() has run

vars == <<procs, cpc, stopped, work_queue, results_queue, wpc, held,
          begin_finished, taken, sent, joined, calls, data, chunk_size, bad,
          data_cnt, finished_cnt, phase, buffer, rel, cur, out, dispatched,
          submitted, log, waited, ended>>

poolVars == <<procs, stopped, work_queue, results_queue, wpc, held,
              begin_finished, taken, sent, joined, ended>>
imapVars == <<calls, data, chunk_size, bad, data_cnt, finished_cnt, phase,
              buffer, rel, cur, out, dispatched>>

\* ------------------------------------------------------------- data types
Workers == 1..procs

\* None: the stop order on the work queue.
NoneItem == [i |-> 0 - 1, data |-> <<>>]

QItem(i, d) == [i |-> i, data |-> d]

\* The k-th input item of the c-th imap call (distinct across the calls).
Item(c, k) == c * (MaxLen + 1) + k

\* The chunk sizes a caller passes: invalid ones (<= 0) and valid ones.
ChunkSizes == (0 - 1)..MaxChunk

\* self(x): the functor of a concrete worker class.
Transform(x) == 2 * x + 1

\* self(x) raises on the items in `bad`.
Raises(x) == x \in bad

SeqMap(s) == [k \in 1..Len(s) |-> Transform(s[k])]

RECURSIVE Concat(_)
Concat(ss) == IF ss = <<>> THEN <<>> ELSE Head(ss) \o Concat(Tail(ss))

IsPrefix(s, t) == Len(s) <= Len(t) /\ s = SubSeq(t, 1, Len(s))

\* ------------------------------------------------------------------ Buffer
\* A fresh Buffer: next expected sequence number 0, nothing pending.
NewBuffer == [waiting_for |-> 0, pending |-> <<>>]

Drop(f, k) == [x \in (DOMAIN f) \ {k} |-> f[x]]

Store(f, k, v) == [x \in (DOMAIN f) \cup {k} |-> IF x = k THEN v ELSE f[x]]

\* Flush with an if in place of the loop: at most one pending payload leaves.
FlushOnce(b, released) ==
    IF b.waiting_for \in DOMAIN b.pending
    THEN [buffer |-> [waiting_for |-> b.waiting_for + 1,
                      pending |-> Drop(b.pending, b.waiting_for)],
          released |-> Append(released, b.pending[b.waiting_for]),
          error |-> FALSE]
    ELSE [buffer |-> b, released |-> released, error |-> FALSE]

\* Drain the pending mapping while it holds the next expected number.
RECURSIVE Flush(_, _)
Flush(b, released) ==
    IF b.waiting_for \in DOMAIN b.pending
    THEN Flush([waiting_for |-> b.waiting_for + 1,
                pending |-> Drop(b.pending, b.waiting_for)],
               Append(released, b.pending[b.waiting_for]))
    ELSE [buffer |-> b, released |-> released, error |-> FALSE]

\* BufferCall that releases the expected payload and leaves the pending ones.
BufferCallNoFlush(b, i, r) ==
    IF i = b.waiting_for
    THEN [buffer |-> [waiting_for |-> b.waiting_for + 1, pending |-> b.pending],
          released |-> <<r>>, error |-> FALSE]
    ELSE IF i > b.waiting_for
    THEN [buffer |-> [waiting_for |-> b.waiting_for,
                      pending |-> Store(b.pending, i, r)],
          released |-> <<>>, error |-> FALSE]
    ELSE [buffer |-> b, released |-> <<>>, error |-> TRUE]

\* BufferCall that forgets a payload that arrives early.
BufferCallDropsEarly(b, i, r) ==
    IF i = b.waiting_for
    THEN Flush([waiting_for |-> b.waiting_for + 1, pending |-> b.pending], <<r>>)
    ELSE IF i > b.waiting_for
    THEN [buffer |-> b, released |-> <<>>, error |-> FALSE]
    ELSE [buffer |-> b, released |-> <<>>, error |-> TRUE]

\* buffer(i, r): the payloads released by one submission, the Buffer after
\* it, and whether it failed with DuplicateSequenceError.
BufferCall(b, i, r) ==
    IF i = b.waiting_for
    THEN Flush([waiting_for |-> b.waiting_for + 1, pending |-> b.pending], <<r>>)
    ELSE IF i > b.waiting_for
    THEN [buffer |-> [waiting_for |-> b.waiting_for,
                      pending |-> Store(b.pending, i, r)],
          released |-> <<>>, error |-> FALSE]
    ELSE [buffer |-> b, released |-> <<>>, error |-> TRUE]

\* ---------------------------------------------------------------- chunking
\* chunking without its last two lines: a trailing short chunk is dropped.
RECURSIVE ChunkLoopNoTail(_, _, _, _)
ChunkLoopNoTail(d, cs, ch, done) ==
    IF d = <<>>
    THEN done
    ELSE LET ch2 == Append(ch, Head(d))
         IN  IF Len(ch2) = cs
             THEN ChunkLoopNoTail(Tail(d), cs, <<>>, Append(done, ch2))
             ELSE ChunkLoopNoTail(Tail(d), cs, ch2, done)

\* imap's chunking(d): ch collects items and is yielded when len(ch) ==
\* chunk_size; what is left at the end is yielded when it is not empty.
RECURSIVE ChunkLoop(_, _, _, _)
ChunkLoop(d, cs, ch, done) ==
    IF d = <<>>
    THEN IF Len(ch) > 0 THEN Append(done, ch) ELSE done
    ELSE LET ch2 == Append(ch, Head(d))
         IN  IF Len(ch2) = cs
             THEN ChunkLoop(Tail(d), cs, <<>>, Append(done, ch2))
             ELSE ChunkLoop(Tail(d), cs, ch2, done)

\* chunking with its last chunk yielded untested: an empty one too.
RECURSIVE ChunkLoopAlwaysTail(_, _, _, _)
ChunkLoopAlwaysTail(d, cs, ch, done) ==
    IF d = <<>>
    THEN Append(done, ch)
    ELSE LET ch2 == Append(ch, Head(d))
         IN  IF Len(ch2) = cs
             THEN ChunkLoopAlwaysTail(Tail(d), cs, <<>>, Append(done, ch2))
             ELSE ChunkLoopAlwaysTail(Tail(d), cs, ch2, done)

chunkingAlwaysTail(d, cs) == ChunkLoopAlwaysTail(d, cs, <<>>, <<>>)

chunkingNoTail(d, cs) == ChunkLoopNoTail(d, cs, <<>>, <<>>)

chunking(d, cs) == ChunkLoop(d, cs, <<>>, <<>>)

\* Full of a queue made without a maxsize: put never blocks.
FullNever(q, maxsize) == FALSE

\* Full with the test off by one: the queue takes maxsize + 1 entries.
FullOffByOne(q, maxsize) == maxsize > 0 /\ Len(q) > maxsize

\* Queue(maxsize).put blocks while the queue is full; maxsize <= 0 is unbounded.
Full(q, maxsize) == maxsize > 0 /\ Len(q) >= maxsize

\* ------------------------------------------------------------------- Init
Init ==
    /\ procs \in 1..MaxWorkers
    /\ cpc = "constructed"
    /\ stopped = FALSE
    /\ work_queue = <<>>
    /\ results_queue = <<>>
    /\ wpc = [w \in 1..procs |-> "new"]
    /\ held = [w \in 1..procs |-> NoneItem]
    /\ begin_finished = [w \in 1..procs |-> FALSE]
    /\ taken = [w \in 1..procs |-> 0]
    /\ sent = 0
    /\ joined = 0
    /\ calls = 0
    /\ data = <<>>
    /\ chunk_size = 1
    /\ bad = {}
    /\ data_cnt = 0
    /\ finished_cnt = 0
    /\ phase = "none"
    /\ buffer = NewBuffer
    /\ rel = <<>>
    /\ cur = <<>>
    /\ out = <<>>
    /\ dispatched = <<>>
    /\ submitted = <<>>
    /\ log = <<>>
    /\ waited = 0
    /\ ended = [w \in 1..procs |-> 0]

\* ----------------------------------------------------------- FunctorWorker
workerVars == <<wpc, held, begin_finished, taken, ended>>

\* run(), lines 71-73: begin() returns and the worker sets begin_finished.
WBegin(w) ==
    /\ wpc[w] = "begin"
    /\ begin_finished' = [begin_finished EXCEPT ![w] = TRUE]
    /\ wpc' = [wpc EXCEPT ![w] = "get"]
    /\ UNCHANGED <<procs, cpc, stopped, work_queue, results_queue, held, taken,
                   sent, joined, submitted, log, waited,
                   ended>>
    /\ UNCHANGED imapVars

\* run(), lines 71-72 and 85: begin() raises, control passes to finally.
WBeginRaise(w) ==
    /\ wpc[w] = "begin"
    /\ wpc' = [wpc EXCEPT ![w] = "finally"]
    /\ UNCHANGED <<procs, cpc, stopped, work_queue, results_queue, held,
                   begin_finished, taken, sent, joined, submitted, log, waited,
                   ended>>
    /\ UNCHANGED imapVars

\* WGet with the stop order told by value: the item numbered 0 also stops.
WGetStopsOnZero(w) ==
    /\ wpc[w] = "get"
    /\ work_queue # <<>>
    /\ work_queue' = Tail(work_queue)
    /\ IF Head(work_queue) = NoneItem \/ Head(work_queue).i = 0
       THEN /\ wpc' = [wpc EXCEPT ![w] = "finally"]
            /\ taken' = [taken EXCEPT ![w] = @ + 1]
            /\ held' = held
       ELSE /\ wpc' = [wpc EXCEPT ![w] = "call"]
            /\ held' = [held EXCEPT ![w] = Head(work_queue)]
            /\ taken' = taken
    /\ UNCHANGED <<procs, cpc, stopped, results_queue, begin_finished, sent,
                   joined, submitted, log, waited,
                   ended>>
    /\ UNCHANGED imapVars

\* run(), lines 75-81: work_queue.get(); None ends the loop.
WGet(w) ==
    /\ wpc[w] = "get"
    /\ work_queue # <<>>
    /\ work_queue' = Tail(work_queue)
    /\ IF Head(work_queue) = NoneItem
       THEN /\ wpc' = [wpc EXCEPT ![w] = "finally"]
            /\ taken' = [taken EXCEPT ![w] = @ + 1]
            /\ held' = held
       ELSE /\ wpc' = [wpc EXCEPT ![w] = "call"]
            /\ held' = [held EXCEPT ![w] = Head(work_queue)]
            /\ taken' = taken
    /\ UNCHANGED <<procs, cpc, stopped, results_queue, begin_finished, sent,
                   joined, submitted, log, waited,
                   ended>>
    /\ UNCHANGED imapVars

\* WCall in a run() without try/finally: a raise ends the process at once.
WCallNoFinally(w) ==
    /\ wpc[w] = "call"
    /\ IF \E k \in 1..Len(held[w].data) : Raises(held[w].data[k])
       THEN /\ wpc' = [wpc EXCEPT ![w] = "exited"]
            /\ results_queue' = results_queue
       ELSE /\ wpc' = [wpc EXCEPT ![w] = "get"]
            /\ results_queue' =
                   Append(results_queue, QItem(held[w].i, SeqMap(held[w].data)))
    /\ held' = [held EXCEPT ![w] = NoneItem]
    /\ UNCHANGED <<procs, cpc, stopped, work_queue, begin_finished, taken,
                   sent, joined, submitted, log, waited,
                   ended>>
    /\ UNCHANGED imapVars

\* WCall with the raise caught inside the loop: the chunk is skipped and the
\* worker goes on to its next get.
WCallSkips(w) ==
    /\ wpc[w] = "call"
    /\ wpc' = [wpc EXCEPT ![w] = "get"]
    /\ IF \E k \in 1..Len(held[w].data) : Raises(held[w].data[k])
       THEN results_queue' = results_queue
       ELSE results_queue' =
                Append(results_queue, QItem(held[w].i, SeqMap(held[w].data)))
    /\ held' = [held EXCEPT ![w] = NoneItem]
    /\ UNCHANGED <<procs, cpc, stopped, work_queue, begin_finished, taken,
                   sent, joined, submitted, log, waited,
                   ended>>
    /\ UNCHANGED imapVars

\* WCall that puts what it had transformed before the raise.
WCallPartial(w) ==
    /\ wpc[w] = "call"
    /\ IF \E k \in 1..Len(held[w].data) : Raises(held[w].data[k])
       THEN LET first == CHOOSE k \in 1..Len(held[w].data) :
                             /\ Raises(held[w].data[k])
                             /\ \A j \in 1..(k - 1) : ~Raises(held[w].data[j])
            IN  /\ wpc' = [wpc EXCEPT ![w] = "finally"]
                /\ results_queue' =
                       Append(results_queue,
                              QItem(held[w].i,
                                    SeqMap(SubSeq(held[w].data, 1, first - 1))))
       ELSE /\ wpc' = [wpc EXCEPT ![w] = "get"]
            /\ results_queue' =
                   Append(results_queue, QItem(held[w].i, SeqMap(held[w].data)))
    /\ held' = [held EXCEPT ![w] = NoneItem]
    /\ UNCHANGED <<procs, cpc, stopped, work_queue, begin_finished, taken,
                   sent, joined, submitted, log, waited,
                   ended>>
    /\ UNCHANGED imapVars

\* WCall that numbers its result with the worker's wid, not the chunk's i.
WCallTagsWid(w) ==
    /\ wpc[w] = "call"
    /\ IF \E k \in 1..Len(held[w].data) : Raises(held[w].data[k])
       THEN /\ wpc' = [wpc EXCEPT ![w] = "finally"]
            /\ results_queue' = results_queue
       ELSE /\ wpc' = [wpc EXCEPT ![w] = "get"]
            /\ results_queue' =
                   Append(results_queue, QItem(w - 1, SeqMap(held[w].data)))
    /\ held' = [held EXCEPT ![w] = NoneItem]
    /\ UNCHANGED <<procs, cpc, stopped, work_queue, begin_finished, taken,
                   sent, joined, submitted, log, waited,
                   ended>>
    /\ UNCHANGED imapVars

\* run(), line 83: the functor is applied to every item of the chunk, in
\* order; a raise on any item leaves the loop with nothing put.
WCall(w) ==
    /\ wpc[w] = "call"
    /\ IF \E k \in 1..Len(held[w].data) : Raises(held[w].data[k])
       THEN /\ wpc' = [wpc EXCEPT ![w] = "finally"]
            /\ results_queue' = results_queue
       ELSE /\ wpc' = [wpc EXCEPT ![w] = "get"]
            /\ results_queue' =
                   Append(results_queue, QItem(held[w].i, SeqMap(held[w].data)))
    /\ held' = [held EXCEPT ![w] = NoneItem]
    /\ UNCHANGED <<procs, cpc, stopped, work_queue, begin_finished, taken,
                   sent, joined, submitted, log, waited,
                   ended>>
    /\ UNCHANGED imapVars

\* run(), lines 85-88: the queues are closed, end() runs, the process exits.
WFinally(w) ==
    /\ wpc[w] = "finally"
    /\ wpc' = [wpc EXCEPT ![w] = "exited"]
    /\ ended' = [ended EXCEPT ![w] = @ + 1]
    /\ UNCHANGED <<procs, cpc, stopped, work_queue, results_queue, held,
                   begin_finished, taken, sent, joined, submitted, log, waited>>
    /\ UNCHANGED imapVars

\* ------------------------------------------------------------- FunctorPool
\* __enter__: every worker process is started.
Enter ==
    /\ cpc = "constructed"
    /\ cpc' = "active"
    /\ wpc' = [w \in Workers |-> "begin"]
    /\ UNCHANGED <<procs, stopped, work_queue, results_queue, held,
                   begin_finished, taken, sent, joined, submitted, log, waited,
                   ended>>
    /\ UNCHANGED imapVars

\* until_all_ready is called in the with body: line 134 starts its loop.
UntilAllReady ==
    /\ cpc \in {"active", "returned"}
    /\ ~stopped
    /\ cpc' = "ready_wait"
    /\ waited' = 0
    /\ UNCHANGED poolVars
    /\ UNCHANGED <<submitted, log>>
    /\ UNCHANGED imapVars

\* ReadyWait that asks is_set() instead of wait(): it goes on at once.
ReadyWaitNoBlock ==
    /\ cpc = "ready_wait"
    /\ waited < procs
    /\ IF waited + 1 = procs
       THEN cpc' = "active" /\ waited' = 0
       ELSE cpc' = cpc /\ waited' = waited + 1
    /\ UNCHANGED poolVars
    /\ UNCHANGED <<submitted, log>>
    /\ UNCHANGED imapVars

\* until_all_ready, lines 134-135: p.begin_finished.wait() returns for the
\* next worker in turn; after the last one until_all_ready returns.
ReadyWait ==
    /\ cpc = "ready_wait"
    /\ waited < procs
    /\ begin_finished[waited + 1]
    /\ IF waited + 1 = procs
       THEN cpc' = "active" /\ waited' = 0
       ELSE cpc' = cpc /\ waited' = waited + 1
    /\ UNCHANGED poolVars
    /\ UNCHANGED <<submitted, log>>
    /\ UNCHANGED imapVars

\* The body of the with statement ends: __exit__ is entered.
Exit ==
    /\ cpc \in {"active", "returned", "raised", "broken"}
    /\ ~stopped
    /\ cpc' = "exit_put"
    /\ UNCHANGED <<procs, stopped, work_queue, results_queue, sent, joined, submitted, log, waited>>
    /\ UNCHANGED workerVars
    /\ UNCHANGED imapVars

\* The body of the with statement raises while it iterates imap: __exit__ is
\* entered with the generator suspended at its yield.
BodyError ==
    /\ cpc = "yield"
    /\ ~stopped
    /\ cpc' = "exit_put"
    /\ UNCHANGED <<procs, stopped, work_queue, results_queue, sent, joined, submitted, log, waited>>
    /\ UNCHANGED workerVars
    /\ UNCHANGED imapVars

\* __exit__, lines 124-125: one None per worker, each put blocking while the
\* work queue is full.
ExitPut ==
    /\ cpc = "exit_put"
    /\ sent < procs
    /\ ~Full(work_queue, procs)
    /\ work_queue' = Append(work_queue, NoneItem)
    /\ sent' = sent + 1
    /\ UNCHANGED <<procs, cpc, stopped, results_queue, joined, submitted, log, waited>>
    /\ UNCHANGED workerVars
    /\ UNCHANGED imapVars

\* ExitJoin without the wait: __exit__ returns after the puts.
ExitNoJoin ==
    /\ cpc = "exit_put"
    /\ sent = procs
    /\ joined < procs
    /\ joined' = joined + 1
    /\ IF joined + 1 = procs
       THEN cpc' = "stopped" /\ stopped' = TRUE
       ELSE cpc' = cpc /\ stopped' = stopped
    /\ UNCHANGED <<procs, work_queue, results_queue, sent, submitted, log, waited>>
    /\ UNCHANGED workerVars
    /\ UNCHANGED imapVars

\* __exit__, lines 126-127: p.join() for each worker in turn; after the last
\* one __exit__ returns.
ExitJoin ==
    /\ cpc = "exit_put"
    /\ sent = procs
    /\ joined < procs
    /\ wpc[joined + 1] = "exited"
    /\ joined' = joined + 1
    /\ IF joined + 1 = procs
       THEN cpc' = "stopped" /\ stopped' = TRUE
       ELSE cpc' = cpc /\ stopped' = stopped
    /\ UNCHANGED <<procs, work_queue, results_queue, sent, submitted, log, waited>>
    /\ UNCHANGED workerVars
    /\ UNCHANGED imapVars

\* ImapCall with one Buffer made with the pool and kept across the calls.
ImapCallSharedBuffer(n, cs, b) ==
    /\ calls < MaxCalls
    /\ calls' = calls + 1
    /\ data' = [k \in 1..n |-> Item(calls + 1, k)]
    /\ chunk_size' = cs
    /\ bad' = IF b = 0 THEN bad ELSE bad \cup {Item(calls + 1, b)}
    /\ data_cnt' = 0
    /\ finished_cnt' = 0
    /\ buffer' = buffer
    /\ rel' = <<>>
    /\ cur' = <<>>
    /\ out' = <<>>
    /\ dispatched' = <<>>
    /\ phase' = "dispatch"
    /\ cpc' = "put"
    /\ UNCHANGED <<procs, stopped, work_queue, results_queue, sent, joined, submitted, log, waited>>
    /\ UNCHANGED workerVars

\* imap(data, chunk_size) is called and its generator is iterated: lines
\* 147-160.  The functor of this call raises on item b of the input (0: on none).
ImapCall(n, cs, b) ==
    /\ calls < MaxCalls
    /\ calls' = calls + 1
    /\ data' = [k \in 1..n |-> Item(calls + 1, k)]
    /\ chunk_size' = cs
    /\ bad' = IF b = 0 THEN bad ELSE bad \cup {Item(calls + 1, b)}
    /\ data_cnt' = 0
    /\ finished_cnt' = 0
    /\ buffer' = NewBuffer
    /\ rel' = <<>>
    /\ cur' = <<>>
    /\ out' = <<>>
    /\ dispatched' = <<>>
    /\ phase' = "dispatch"
    /\ cpc' = "put"
    /\ UNCHANGED <<procs, stopped, work_queue, results_queue, sent, joined, submitted, log, waited>>
    /\ UNCHANGED workerVars

\* imap called in the with body, on the started pool, when no earlier call
\* is left unfinished.
StartImap(n, cs, b) ==
    /\ cpc \in {"active", "returned"}
    /\ ~stopped
    /\ ImapCall(n, cs, b)

\* imap called outside the pool's life cycle: after an earlier generator was
\* left unfinished or raised, or after __exit__ has returned.
LateImap(n, cs, b) ==
    /\ \/ cpc \in {"broken", "raised", "stopped"}
       \/ cpc = "returned" /\ stopped
    /\ ImapCall(n, cs, b)

\* Put with the chunks numbered from 1, as enumerate(chunking(data), 1) would.
PutFromOne ==
    /\ cpc = "put"
    /\ data_cnt < Len(chunking(data, chunk_size))
    /\ ~Full(work_queue, procs)
    /\ LET chunk == chunking(data, chunk_size)[data_cnt + 1]
       IN  /\ work_queue' = Append(work_queue, QItem(data_cnt + 1, chunk))
           /\ dispatched' = Append(dispatched, QItem(data_cnt + 1, chunk))
    /\ data_cnt' = data_cnt + 1
    /\ cpc' = "poll"
    /\ UNCHANGED <<procs, stopped, results_queue, sent, joined, submitted, log, waited>>
    /\ UNCHANGED workerVars
    /\ UNCHANGED <<calls, data, chunk_size, bad, finished_cnt, phase, buffer,
                   rel, cur, out>>

\* imap, lines 161-163: the next chunk is put on the work queue (blocking
\* while it is full) and counted.
Put ==
    /\ cpc = "put"
    /\ data_cnt < Len(chunking(data, chunk_size))
    /\ ~Full(work_queue, procs)
    /\ LET chunk == chunking(data, chunk_size)[data_cnt + 1]
       IN  /\ work_queue' = Append(work_queue, QItem(data_cnt, chunk))
           /\ dispatched' = Append(dispatched, QItem(data_cnt, chunk))
    /\ data_cnt' = data_cnt + 1
    /\ cpc' = "poll"
    /\ UNCHANGED <<procs, stopped, results_queue, sent, joined, submitted, log, waited>>
    /\ UNCHANGED workerVars
    /\ UNCHANGED <<calls, data, chunk_size, bad, finished_cnt, phase, buffer,
                   rel, cur, out>>

\* imap, line 161: chunking is exhausted, the for loop ends.
PutDone ==
    /\ cpc = "put"
    /\ data_cnt = Len(chunking(data, chunk_size))
    /\ phase' = "drain"
    /\ cpc' = "wait"
    /\ UNCHANGED poolVars
    /\ UNCHANGED <<submitted, log, waited, calls, data, chunk_size, bad, data_cnt,
                   finished_cnt,
                   buffer, rel, cur, out, dispatched>>

\* Receive without the Buffer: the chunk read is yielded as it arrives.
ReceiveUnordered(res) ==
    /\ cpc' = "yield"
    /\ finished_cnt' = finished_cnt + 1
    /\ out' = Append(out, Head(res.data))
    /\ cur' = Tail(res.data)
    /\ UNCHANGED <<buffer, rel>>

\* Receive with the Buffer's error swallowed like queue.Empty: imap goes on.
ReceiveSwallows(res) ==
    LET r == BufferCall(buffer, res.i, res.data)
    IN  IF r.error
        THEN /\ cpc' = IF phase = "dispatch" THEN "put" ELSE "wait"
             /\ UNCHANGED <<buffer, rel, cur, out, finished_cnt>>
        ELSE /\ buffer' = r.buffer
             /\ IF r.released = <<>>
                THEN /\ cpc' = cpc
                     /\ UNCHANGED <<rel, cur, out, finished_cnt>>
                ELSE /\ cpc' = "yield"
                     /\ finished_cnt' = finished_cnt + 1
                     /\ out' = Append(out, Head(Head(r.released)))
                     /\ cur' = Tail(Head(r.released))
                     /\ rel' = Tail(r.released)

\* Receive that counts every result read, released or not.
ReceiveCountsArrivals(res) ==
    LET r == BufferCall(buffer, res.i, res.data)
    IN  IF r.error
        THEN /\ cpc' = "raised"
             /\ UNCHANGED <<buffer, rel, cur, out, finished_cnt>>
        ELSE /\ buffer' = r.buffer
             /\ finished_cnt' = finished_cnt + 1
             /\ IF r.released = <<>>
                THEN /\ cpc' = cpc
                     /\ UNCHANGED <<rel, cur, out>>
                ELSE /\ cpc' = "yield"
                     /\ out' = Append(out, Head(Head(r.released)))
                     /\ cur' = Tail(Head(r.released))
                     /\ rel' = Tail(r.released)

\* What imap does with one result (res_i, res_chunk) it has read, lines
\* 169-172 and 179-182: it is submitted to the Buffer; the first released
\* chunk is counted and its first item yielded; a Buffer error leaves imap.
Receive(res) ==
    LET r == BufferCall(buffer, res.i, res.data)
    IN  IF r.error
        THEN /\ cpc' = "raised"
             /\ UNCHANGED <<buffer, rel, cur, out, finished_cnt>>
        ELSE /\ buffer' = r.buffer
             /\ IF r.released = <<>>
                THEN /\ cpc' = cpc
                     /\ UNCHANGED <<rel, cur, out, finished_cnt>>
                ELSE /\ cpc' = "yield"
                     /\ finished_cnt' = finished_cnt + 1
                     /\ out' = Append(out, Head(Head(r.released)))
                     /\ cur' = Tail(Head(r.released))
                     /\ rel' = Tail(r.released)

\* imap, lines 167-168: results_queue.get(False) returns a result.
Poll ==
    /\ cpc = "poll"
    /\ results_queue # <<>>
    /\ results_queue' = Tail(results_queue)
    /\ Receive(Head(results_queue))
    /\ UNCHANGED <<procs, stopped, work_queue, sent, joined, submitted, log, waited>>
    /\ UNCHANGED workerVars
    /\ UNCHANGED <<calls, data, chunk_size, bad, data_cnt, phase, dispatched>>

\* imap, lines 168 and 174-175: results_queue.get(False) raises queue.Empty,
\* the for loop goes on.
PollEmpty ==
    /\ cpc = "poll"
    /\ results_queue = <<>>
    /\ cpc' = "put"
    /\ UNCHANGED poolVars
    /\ UNCHANGED <<submitted, log, waited, calls, data, chunk_size, bad, data_cnt,
                   finished_cnt,
                   phase, buffer, rel, cur, out, dispatched>>

\* imap, lines 177-178: finished_cnt < data_cnt, the blocking get returns.
Wait ==
    /\ cpc = "wait"
    /\ finished_cnt < data_cnt
    /\ results_queue # <<>>
    /\ results_queue' = Tail(results_queue)
    /\ Receive(Head(results_queue))
    /\ UNCHANGED <<procs, stopped, work_queue, sent, joined, submitted, log, waited>>
    /\ UNCHANGED workerVars
    /\ UNCHANGED <<calls, data, chunk_size, bad, data_cnt, phase, dispatched>>

\* Return with the drain loop's condition off by one.
ReturnOneEarly ==
    /\ cpc = "wait"
    /\ ~(finished_cnt < data_cnt - 1)
    /\ cpc' = "returned"
    /\ UNCHANGED poolVars
    /\ UNCHANGED <<submitted, log, waited, calls, data, chunk_size, bad, data_cnt,
                   finished_cnt, phase, buffer, rel, cur, out, dispatched>>

\* Return of a drain loop that reads a result before it tests its condition.
ReturnAfterGet ==
    /\ cpc = "wait"
    /\ finished_cnt > 0
    /\ ~(finished_cnt < data_cnt)
    /\ cpc' = "returned"
    /\ UNCHANGED poolVars
    /\ UNCHANGED <<submitted, log, waited, calls, data, chunk_size, bad, data_cnt,
                   finished_cnt, phase, buffer, rel, cur, out, dispatched>>

\* Return of a drain loop that ends when the results queue is found empty.
ReturnWhenQueueEmpty ==
    /\ cpc = "wait"
    /\ ~(finished_cnt < data_cnt) \/ results_queue = <<>>
    /\ cpc' = "returned"
    /\ UNCHANGED poolVars
    /\ UNCHANGED <<submitted, log, waited, calls, data, chunk_size, bad, data_cnt,
                   finished_cnt, phase, buffer, rel, cur, out, dispatched>>

\* imap, line 177: the while condition is false, the generator returns.
Return ==
    /\ cpc = "wait"
    /\ ~(finished_cnt < data_cnt)
    /\ cpc' = "returned"
    /\ UNCHANGED poolVars
    /\ UNCHANGED <<submitted, log, waited, calls, data, chunk_size, bad, data_cnt,
                   finished_cnt,
                   phase, buffer, rel, cur, out, dispatched>>

\* The caller asks the suspended generator for its next value, lines 169-172
\* and 179-182: the next item of the chunk, else the first item of the next
\* released chunk, else back to reading results.
Resume ==
    /\ cpc = "yield"
    /\ IF cur # <<>>
       THEN /\ out' = Append(out, Head(cur))
            /\ cur' = Tail(cur)
            /\ UNCHANGED <<cpc, rel, finished_cnt>>
       ELSE IF rel # <<>>
       THEN /\ finished_cnt' = finished_cnt + 1
            /\ out' = Append(out, Head(Head(rel)))
            /\ cur' = Tail(Head(rel))
            /\ rel' = Tail(rel)
            /\ cpc' = cpc
       ELSE /\ cpc' = IF phase = "dispatch" THEN "poll" ELSE "wait"
            /\ UNCHANGED <<out, cur, rel, finished_cnt>>
    /\ UNCHANGED poolVars
    /\ UNCHANGED <<submitted, log, waited, calls, data, chunk_size, bad, data_cnt, phase, buffer,
                   dispatched>>

\* The caller leaves the loop over imap's generator (break) and stays in the
\* with body.
Break ==
    /\ cpc = "yield"
    /\ ~stopped
    /\ cpc' = "broken"
    /\ UNCHANGED poolVars
    /\ UNCHANGED <<submitted, log, waited>>
    /\ UNCHANGED imapVars

\* ------------------------------------------------------------------- Spec
WorkerStep ==
    \E w \in Workers :
        \/ WBegin(w)
        \/ WBeginRaise(w)
        \/ WGet(w)
        \/ WCall(w)
        \/ WFinally(w)

CallerStep ==
    \/ Enter
    \/ UntilAllReady
    \/ ReadyWait
    \/ \E n \in 0..MaxLen, cs \in ChunkSizes : \E b \in 0..n : StartImap(n, cs, b)
    \/ Put
    \/ PutDone
    \/ Poll
    \/ PollEmpty
    \/ Wait
    \/ Return
    \/ Resume
    \/ Exit
    \/ BodyError
    \/ ExitPut
    \/ ExitJoin

Next == WorkerStep \/ CallerStep

Spec == Init /\ [][Next]_vars

\* Everything one worker process does.
WorkerRun(w) ==
    /\ w \in Workers
    /\ \/ WBegin(w)
       \/ WBeginRaise(w)
       \/ WGet(w)
       \/ WCall(w)
       \/ WFinally(w)

\* What imap's generator does while its caller keeps asking for the next value.
ImapRun == Put \/ PutDone \/ Poll \/ PollEmpty \/ Wait \/ Return \/ Resume

\* Every worker process keeps being scheduled, a caller that has not left
\* the loop over imap keeps consuming it, and a caller inside until_all_ready
\* keeps running.
FairSpec ==
    /\ Spec
    /\ \A w \in 1..MaxWorkers : WF_vars(WorkerRun(w))
    /\ WF_vars(ImapRun)
    /\ WF_vars(ReadyWait)

\* ------------------------------------------------------------ Buffer alone
\* The payloads a producer may submit: result chunks of one item.
Payloads == {<<Transform(Item(1, k))>> : k \in 1..MaxLen}

\* A Buffer used on its own, by a caller that submits each sequence number
\* below MaxSubmits once, in any order.
InitBuf ==
    /\ procs = 1
    /\ cpc = "buffer"
    /\ stopped = FALSE
    /\ work_queue = <<>>
    /\ results_queue = <<>>
    /\ wpc = [w \in 1..procs |-> "new"]
    /\ held = [w \in 1..procs |-> NoneItem]
    /\ begin_finished = [w \in 1..procs |-> FALSE]
    /\ taken = [w \in 1..procs |-> 0]
    /\ sent = 0
    /\ joined = 0
    /\ calls = 0
    /\ data = <<>>
    /\ chunk_size = 1
    /\ bad = {}
    /\ data_cnt = 0
    /\ finished_cnt = 0
    /\ phase = "none"
    /\ buffer = NewBuffer
    /\ rel = <<>>
    /\ cur = <<>>
    /\ out = <<>>
    /\ dispatched = <<>>
    /\ submitted = <<>>
    /\ log = <<>>
    /\ waited = 0
    /\ ended = [w \in 1..procs |-> 0]

\* One call buffer(i, r), its released payloads iterated to the end.
Submit(i, r) ==
    LET res == BufferCall(buffer, i, r)
    IN  /\ cpc \in {"buffer", "raised"}
        /\ cpc' = IF res.error THEN "raised" ELSE "buffer"
        /\ buffer' = res.buffer
        /\ rel' = res.released
        /\ log' = log \o res.released
        /\ submitted' = IF res.error THEN submitted ELSE Store(submitted, i, r)
        /\ UNCHANGED poolVars
        /\ UNCHANGED <<waited, calls, data, chunk_size, bad, data_cnt,
                       finished_cnt, phase, cur, out, dispatched>>

\* A sequence number not submitted before.
SubmitNew ==
    \E i \in 0..(MaxSubmits - 1), r \in Payloads :
        /\ i \notin DOMAIN submitted
        /\ Submit(i, r)

\* A sequence number that was already released.
SubmitAgain ==
    \E i \in 0..(MaxSubmits - 1), r \in Payloads :
        /\ i < buffer.waiting_for
        /\ Submit(i, r)

NextBuf == SubmitNew \/ SubmitAgain

BufSpec == InitBuf /\ [][NextBuf]_vars

\* Any caller: it may also break out of an imap loop and call imap again, and
\* call imap after the pool's scope has ended.
Misuse ==
    \/ Break
    \/ \E n \in 0..MaxLen, cs \in ChunkSizes : \E b \in 0..n : LateImap(n, cs, b)

NextAny == Next \/ Misuse

SpecAny == Init /\ [][NextAny]_vars

\* ------------------------------------------------------------------ claims
\* The caller is inside an imap call (its generator is neither exhausted nor
\* abandoned).
InImap == cpc \in {"put", "poll", "yield", "wait"}

\* The chunks put so far by the current call, without their numbers.
Chunks == [k \in 1..Len(dispatched) |-> dispatched[k].data]

\* C1: a completed imap(xs, chunk_size) with chunk_size >= 1, on a pool of any
\* number of workers, has yielded exactly len(xs) outputs, the i-th of which is
\* transform(xs[i]).
C1_CompletedImapYieldsTransformedInput ==
    (cpc = "returned" /\ chunk_size >= 1) =>
        /\ Len(out) = Len(data)
        /\ \A k \in 1..Len(data) : out[k] = Transform(data[k])

\* An imap call over three items in chunks of two has completed on two workers.
C1_Witness ==
    /\ cpc = "returned"
    /\ procs = 2
    /\ chunk_size = 2
    /\ Len(data) = 3
    /\ Len(out) = 3

\* C2: whatever the order in which the workers finish their chunks, what imap
\* has yielded so far is at every moment a prefix of [transform(x) for x in xs].
C2_YieldedIsPrefixOfTransformedInput ==
    procs > 1 => IsPrefix(out, SeqMap(data))

\* A later chunk's result arrived before an earlier one's: one submission
\* released more than one chunk, and imap is yielding them.
C2_Witness ==
    /\ procs > 1
    /\ cpc = "yield"
    /\ out # <<>>
    /\ rel # <<>>

\* C3: with a worker in its processing loop, no transform error and fair
\* scheduling, an imap call whose output is consumed eventually completes;
\* and it completes only when finished_cnt equals data_cnt, with every chunk
\* of the input dispatched.
C3_ImapCompletesWhenAllReleased ==
    /\ [](cpc = "returned" =>
            /\ finished_cnt = data_cnt
            /\ data_cnt = Len(chunking(data, chunk_size)))
    /\ [][(cpc' = "returned" /\ cpc # "returned") =>
            (cpc = "wait" /\ finished_cnt = data_cnt)]_vars
    /\ (InImap /\ bad = {} /\ \E w \in Workers : wpc[w] \in {"get", "call"})
           ~> ~InImap

\* imap has completed after it had to wait, in its drain loop, for results.
C3_Witness ==
    /\ cpc = "returned"
    /\ bad = {}
    /\ data_cnt = 2
    /\ finished_cnt = 2
    /\ Len(out) = 3

\* C4: for every arrival order of submissions (0, p0) .. (k-1, p(k-1)) to one
\* Buffer, the payloads released over all the calls are p0, p1, .. in
\* increasing sequence order, each once; a submission is held exactly while a
\* smaller sequence number has not been submitted.
C4_BufferReleasesInSequenceOrder ==
    /\ Len(log) = buffer.waiting_for
    /\ \A k \in 1..buffer.waiting_for :
           /\ (k - 1) \in DOMAIN submitted
           /\ log[k] = submitted[k - 1]
    /\ buffer.waiting_for \notin DOMAIN submitted
    /\ \A i \in DOMAIN submitted :
           i >= buffer.waiting_for =>
               /\ i \in DOMAIN buffer.pending
               /\ buffer.pending[i] = submitted[i]
    /\ \A i \in DOMAIN buffer.pending : i \in DOMAIN submitted

\* Numbers 0 and 2 arrived before 1: the submission of 1 released two
\* payloads at once.
C4_Witness ==
    /\ cpc = "buffer"
    /\ buffer.waiting_for = 3
    /\ Len(rel) = 2
    /\ Len(log) = 3

\* C5: __exit__ puts exactly one None per worker and only then joins; a worker
\* takes at most one None and reads nothing after it; once __exit__ has
\* returned, after a normal end of the body or an error in it, every worker
\* process has exited.
C5_ShutdownStopsEveryWorker ==
    /\ sent <= procs
    /\ joined > 0 => sent = procs
    /\ \A w \in Workers :
           /\ taken[w] <= 1
           /\ taken[w] = 1 => wpc[w] \in {"finally", "exited"}
    /\ stopped =>
           /\ sent = procs
           /\ \A w \in Workers : wpc[w] = "exited"

\* The scope of a pool of two workers has ended because the body raised in
\* the middle of an imap loop.
C5_Witness ==
    /\ stopped
    /\ procs = 2
    /\ out # <<>>
    /\ Len(out) < Len(data)
    /\ \A w \in Workers : taken[w] = 1

\* C6: from every reachable state in which a worker has died (it exited
\* without having taken a None), __exit__ can go on: its puts and joins never
\* block for ever.
C6_ShutdownToleratesDeadWorkers ==
    (cpc = "exit_put" /\ \E w \in Workers : wpc[w] = "exited" /\ taken[w] = 0)
        => ENABLED Next

\* C7: an imap call made after __exit__ has returned fails: it puts no chunk
\* on the work queue, does not block and does not return normally.
C7_ImapAfterShutdownFails ==
    (stopped /\ cpc # "stopped") =>
        /\ dispatched = <<>>
        /\ cpc # "returned"

\* C8: when imap reads a result whose number is below the Buffer's next
\* expected one, the Buffer fails: nothing is released or stored, and imap
\* ends there with the error, yielding and counting nothing more.
C8_DuplicateSequenceIsFatal ==
    [][/\ (/\ results_queue # <<>>
           /\ results_queue' = Tail(results_queue)
           /\ Head(results_queue).i < buffer.waiting_for)
          => (/\ cpc' = "raised"
              /\ buffer' = buffer
              /\ out' = out
              /\ finished_cnt' = finished_cnt)
       /\ (cpc = "raised" /\ calls' = calls)
          => (/\ cpc' \in {"raised", "exit_put"}
              /\ out' = out
              /\ finished_cnt' = finished_cnt
              /\ data_cnt' = data_cnt)]_vars

\* imap has ended with the Buffer's error.
C8_Witness ==
    /\ cpc = "raised"
    /\ buffer.waiting_for > 0

\* C9: an imap call with chunk_size <= 0 is refused before any dispatch: it
\* puts no chunk, yields nothing and does not return normally.
C9_InvalidChunkSizeRefused ==
    chunk_size <= 0 =>
        /\ dispatched = <<>>
        /\ out = <<>>
        /\ cpc # "returned"

\* C10: for chunk_size >= 1, the chunks imap puts are consecutive pieces of the
\* input: none is empty or longer than chunk_size, every one but the last has
\* exactly chunk_size items, and once the dispatch loop has ended their
\* concatenation is the input.
C10_ChunksPartitionInput ==
    chunk_size >= 1 =>
        /\ \A k \in 1..Len(Chunks) :
               /\ Len(Chunks[k]) >= 1
               /\ Len(Chunks[k]) <= chunk_size
               /\ k < Len(Chunks) => Len(Chunks[k]) = chunk_size
        /\ IsPrefix(Concat(Chunks), data)
        /\ phase = "drain" => Concat(Chunks) = data

\* Three items were dispatched in chunks of two: a full chunk and a short one.
C10_Witness ==
    /\ phase = "drain"
    /\ chunk_size = 2
    /\ Len(data) = 3
    /\ Len(Chunks) = 2
    /\ Len(Chunks[2]) = 1

\* C11: for a non-empty input xs and chunk_size > len(xs), imap produces and
\* dispatches exactly one chunk; for an empty input it produces and dispatches
\* none.
C11_OneChunkWhenInputNonEmpty ==
    (calls >= 1 /\ chunk_size > Len(data)) =>
        LET n == IF data = <<>> THEN 0 ELSE 1
        IN  /\ Len(chunking(data, chunk_size)) = n
            /\ Len(dispatched) <= n
            /\ phase = "drain" => Len(dispatched) = n

C11_Witness ==
    /\ cpc = "returned"
    /\ chunk_size = 2
    /\ Len(data) = 1
    /\ Len(dispatched) = 1

\* C11 as stated: every input, the empty one included, gives exactly one chunk.
C11_OneChunkForEveryInput ==
    (calls >= 1 /\ chunk_size > Len(data)) =>
        /\ Len(chunking(data, chunk_size)) = 1
        /\ phase = "drain" => Len(dispatched) = 1

\* C12: imap on an empty input dispatches no chunk, yields no output and
\* completes without reading the results queue: its for loop ends at once and
\* its drain loop's condition is false on entry.
C12_EmptyInputCompletesWithoutWaiting ==
    (calls >= 1 /\ data = <<>> /\ (InImap \/ cpc = "returned")) =>
        /\ dispatched = <<>>
        /\ data_cnt = 0
        /\ finished_cnt = 0
        /\ out = <<>>
        /\ cpc \in {"put", "wait", "returned"}
        /\ cpc = "put" => ENABLED PutDone
        /\ cpc = "wait" => (ENABLED Return /\ ~ENABLED Wait)

C12_Witness ==
    /\ cpc = "returned"
    /\ data = <<>>
    /\ calls = 2
    /\ \A w \in Workers : wpc[w] = "get"

C20_ChunksNumberedInDispatchOrder ==
    /\ data_cnt = Len(dispatched)
    /\ \A k \in 1..Len(dispatched) : dispatched[k].i = k - 1
    /\ \A k, l \in 1..Len(dispatched) :
           k < l => dispatched[k].i < dispatched[l].i
    /\ \A k, l \in 1..Len(work_queue) :
           (k < l /\ work_queue[k] # NoneItem /\ work_queue[l] # NoneItem)
               => work_queue[k].i < work_queue[l].i

C20_Witness ==
    /\ Len(dispatched) = 3
    /\ Len(work_queue) = 2
    /\ cpc = "poll"

\* C14: until_all_ready returns only when every worker of the pool has set
\* begin_finished, which a worker does only after its begin() has returned;
\* while some worker has not, the caller stays inside until_all_ready; and
\* once all have, until_all_ready eventually returns.
C14_UntilAllReadyWaitsForEveryWorker ==
    /\ [](\A w \in Workers : begin_finished[w] => wpc[w] \notin {"new", "begin"})
    /\ [][(cpc = "ready_wait" /\ cpc' # "ready_wait") =>
              /\ cpc' = "active"
              /\ \A w \in Workers : begin_finished[w] /\ begin_finished'[w]]_vars
    /\ [][(cpc = "ready_wait" /\ \E w \in Workers : ~begin_finished'[w]) =>
              cpc' = "ready_wait"]_vars
    /\ (cpc = "ready_wait" /\ \A w \in Workers : begin_finished[w])
           ~> (cpc = "active")

C14_Witness ==
    /\ procs = 2
    /\ cpc = "ready_wait"
    /\ waited = 1
    /\ \A w \in Workers : begin_finished[w]

\* C15: a second imap call made on the same started pool after the first was
\* consumed to its end starts from nothing: its chunks are numbered from 0
\* again, its Buffer counts only its own releases, the queues hold only its
\* own chunks and results, and it yields the transformed items of its own
\* input in input order.
C15_SuccessiveCallsAreIndependent ==
    (calls >= 2 /\ (InImap \/ cpc = "returned")) =>
        /\ \A k \in 1..Len(dispatched) : dispatched[k] = QItem(k - 1, Chunks[k])
        /\ Concat(Chunks) = SubSeq(data, 1, Len(Concat(Chunks)))
        /\ buffer.waiting_for = finished_cnt + Len(rel)
        /\ \A i \in DOMAIN buffer.pending : i < data_cnt
        /\ \A k \in 1..Len(work_queue) : \E j \in 1..Len(dispatched) :
               work_queue[k] = dispatched[j]
        /\ \A k \in 1..Len(results_queue) : \E j \in 1..Len(dispatched) :
               results_queue[k] = QItem(j - 1, SeqMap(Chunks[j]))
        /\ IsPrefix(out, SeqMap(data))
        /\ cpc = "returned" => out = SeqMap(data)

\* The second call on a pool of two workers has yielded three items, one per
\* chunk.
C15_Witness ==
    /\ calls = 2
    /\ procs = 2
    /\ cpc = "returned"
    /\ chunk_size = 1
    /\ Len(out) = 3

\* C16: every worker that is past its begin() has set begin_finished, whether
\* begin() returned or raised; begin_finished is never set while begin() has
\* not finished, and a worker takes nothing from the work queue before it is
\* set.
C16_ReadySignalledAfterSetup ==
    \A w \in Workers :
        /\ begin_finished[w] => wpc[w] \notin {"new", "begin"}
        /\ wpc[w] \notin {"new", "begin"} => begin_finished[w]
        /\ (taken[w] > 0 \/ held[w] # NoneItem) => begin_finished[w]

\* The functor raises on some item of the chunk.
HasBad(item) == \E k \in 1..Len(item.data) : Raises(item.data[k])

\* C17: a worker's end() runs exactly once on every way out of run(): a worker
\* has exited exactly when its end() has run once, end() runs in the step that
\* leaves the finally block, whether the loop was ended by None or by a raise,
\* and a worker whose end() has run takes nothing more from the work queue
\* and puts nothing more on the results queue.
C17_TeardownRunsOnceOnEveryExit ==
    /\ [](\A w \in Workers :
              /\ ended[w] = (IF wpc[w] = "exited" THEN 1 ELSE 0)
              /\ ended[w] = 1 => held[w] = NoneItem)
    /\ [][\A w \in Workers :
              /\ ended'[w] # ended[w] =>
                     (wpc[w] = "finally" /\ wpc'[w] = "exited")
              /\ ended[w] = 1 =>
                     (wpc'[w] = "exited" /\ held'[w] = held[w]
                                         /\ taken'[w] = taken[w])]_vars
    /\ [][/\ Len(work_queue') < Len(work_queue) =>
                 \E w \in Workers : ended[w] = 0 /\ wpc[w] = "get"
          /\ Len(results_queue') > Len(results_queue) =>
                 \E w \in Workers : ended[w] = 0 /\ wpc[w] = "call"]_vars

\* One worker left its loop on None, the other on a raise of the functor, and
\* both have run end().
C17_Witness ==
    /\ procs = 2
    /\ \A w \in Workers : wpc[w] = "exited" /\ ended[w] = 1
    /\ \E w \in Workers : taken[w] = 1
    /\ \E w \in Workers : taken[w] = 0 /\ begin_finished[w]

\* C18: when the functor raises on an item of a chunk, the worker leaves its
\* loop with nothing put on the results queue for that chunk and nothing more
\* taken from the work queue, then runs its finally block and exits; no result
\* numbered like a chunk on which the functor raises ever exists.
C18_TransformErrorAbortsWorker ==
    /\ [][\A w \in Workers :
              /\ (wpc[w] = "call" /\ HasBad(held[w]) /\ wpc'[w] # "call") =>
                     /\ wpc'[w] = "finally"
                     /\ results_queue' = results_queue
                     /\ work_queue' = work_queue
              /\ wpc[w] = "finally" => wpc'[w] \in {"finally", "exited"}
              /\ wpc[w] = "exited" => wpc'[w] = "exited"]_vars
    /\ [](\A k \in 1..Len(dispatched) : HasBad(dispatched[k]) =>
              /\ \A j \in 1..Len(results_queue) :
                     results_queue[j].i # dispatched[k].i
              /\ dispatched[k].i \notin DOMAIN buffer.pending
              /\ buffer.waiting_for <= dispatched[k].i)

\* A worker has exited on a raise of the functor on the second item of a
\* chunk of two.
C18_Witness ==
    /\ chunk_size = 2
    /\ \E k \in 1..Len(dispatched) :
           /\ Len(dispatched[k].data) = 2
           /\ ~Raises(dispatched[k].data[1])
           /\ Raises(dispatched[k].data[2])
    /\ \E w \in Workers :
           wpc[w] = "exited" /\ taken[w] = 0 /\ begin_finished[w]

\* The k-th chunk put by the call was taken by a worker that then crashed on it.
Lost(k) ==
    /\ HasBad(dispatched[k])
    /\ \A j \in 1..Len(work_queue) : work_queue[j] # dispatched[k]
    /\ \A w \in Workers : held[w] # dispatched[k]

\* C19: a chunk whose worker crashed on it is lost without a sign: imap raises
\* nothing to its caller, the chunk is put only once and never comes back to
\* the work queue or to a worker, no result exists for it, and the count of
\* released chunks stays below the count of chunks put.
C19_CrashedChunkIsSilentlyLost ==
    /\ [](\A k \in 1..Len(dispatched) : Lost(k) =>
              /\ cpc # "raised"
              /\ \A j \in 1..Len(dispatched) :
                     dispatched[j].i = dispatched[k].i => j = k
              /\ \A j \in 1..Len(results_queue) :
                     results_queue[j].i # dispatched[k].i
              /\ finished_cnt <= dispatched[k].i
              /\ finished_cnt < data_cnt)
    /\ [][\A k \in 1..Len(dispatched) :
              (Lost(k) /\ dispatched' = dispatched) => Lost(k)']_vars

\* The second of three chunks is lost, the other two were put and the first
\* was released: imap waits in its drain loop.
C19_Witness ==
    /\ Len(dispatched) = 3
    /\ Lost(2)
    /\ finished_cnt = 1
    /\ cpc = "wait"
    /\ results_queue = <<>>
    /\ \A w \in Workers : wpc[w] \in {"get", "exited"}

\* Where the k-th chunk put by the call, or its result, is: how many places
\* hold it, among the work queue, the workers, the results queue, the
\* Buffer's pending mapping and the chunks already released.
Places(k) ==
    LET c == dispatched[k]
    IN  Cardinality({j \in 1..Len(work_queue) : work_queue[j] = c})
        + Cardinality({w \in Workers : held[w] = c})
        + Cardinality({j \in 1..Len(results_queue) : results_queue[j].i = c.i})
        + (IF c.i \in DOMAIN buffer.pending THEN 1 ELSE 0)
        + (IF c.i < buffer.waiting_for THEN 1 ELSE 0)

\* C21: a worker puts its result under the number of the chunk it holds, with
\* one output per item in item order; a get hands the head of the work queue
\* to one worker only; so every result on the results queue is the result of
\* one chunk put by the call, and no chunk and no number is ever in two places.
C21_ResultCarriesChunkNumber ==
    /\ [][\A w \in Workers :
              /\ (wpc[w] = "call" /\ wpc'[w] = "get") =>
                     results_queue' =
                         Append(results_queue,
                                [i |-> held[w].i,
                                 data |-> [k \in 1..Len(held[w].data) |->
                                              Transform(held[w].data[k])]])
              /\ (wpc[w] = "get" /\ wpc'[w] = "call") =>
                     /\ held'[w] = Head(work_queue)
                     /\ work_queue' = Tail(work_queue)
                     /\ \A v \in Workers \ {w} : held'[v] = held[v]]_vars
    /\ [](InImap =>
              /\ \A j \in 1..Len(results_queue) : \E k \in 1..Len(dispatched) :
                     /\ results_queue[j].i = dispatched[k].i
                     /\ results_queue[j].data = SeqMap(dispatched[k].data)
              /\ \A k \in 1..Len(dispatched) :
                     Places(k) = IF Lost(k) THEN 0 ELSE 1)

\* Both workers hold a chunk while the result of a third is on the results
\* queue.
C21_Witness ==
    /\ procs = 2
    /\ InImap
    /\ \A w \in Workers : wpc[w] = "call"
    /\ held[1] # held[2]
    /\ Len(results_queue) = 1

\* C22: after every submission to a Buffer, every number below waiting_for has
\* been released exactly once (the log holds one payload per number, the one
\* submitted under it), the pending mapping does not hold waiting_for and all
\* its keys are above it; waiting_for starts at 0 and grows by exactly one per
\* released payload.
C22_BufferInvariant ==
    /\ [](/\ buffer.waiting_for \notin DOMAIN buffer.pending
          /\ \A i \in DOMAIN buffer.pending : i > buffer.waiting_for
          /\ Len(log) = buffer.waiting_for
          /\ \A i \in 0..(buffer.waiting_for - 1) : log[i + 1] = submitted[i]
          /\ log = <<>> => buffer.waiting_for = 0)
    /\ [][/\ Len(log') >= Len(log)
          /\ buffer'.waiting_for = buffer.waiting_for + (Len(log') - Len(log))
          /\ Len(rel') = Len(log') - Len(log)]_vars

\* The payload numbered 0 was released; 2 and 3 wait for 1.
C22_Witness ==
    /\ cpc = "buffer"
    /\ buffer.waiting_for = 1
    /\ DOMAIN buffer.pending = {2, 3}

\* C23: one submission under a number above waiting_for stores the payload,
\* releases nothing and leaves waiting_for as it was; one submission under
\* waiting_for releases, in that call, the payload and then every pending
\* payload of the longest run of consecutive numbers that follows, takes them
\* out of the pending mapping and moves waiting_for past the run.
C23_SubmitStoresOrReleasesRun ==
    [][DOMAIN submitted' # DOMAIN submitted =>
           LET i == CHOOSE x \in DOMAIN submitted' : x \notin DOMAIN submitted
               r == submitted'[i]
               wf == buffer.waiting_for
               pend == buffer.pending
               n == CHOOSE m \in 1..(MaxSubmits + 1) :
                        /\ \A j \in 1..(m - 1) : (wf + j) \in DOMAIN pend
                        /\ (wf + m) \notin DOMAIN pend
           IN  IF i > wf
               THEN /\ DOMAIN buffer'.pending = DOMAIN pend \cup {i}
                    /\ buffer'.pending[i] = r
                    /\ \A x \in DOMAIN pend : buffer'.pending[x] = pend[x]
                    /\ rel' = <<>>
                    /\ log' = log
                    /\ buffer'.waiting_for = wf
               ELSE /\ i = wf
                    /\ rel' = <<r>> \o [j \in 1..(n - 1) |-> pend[wf + j]]
                    /\ log' = log \o rel'
                    /\ DOMAIN buffer'.pending = DOMAIN pend \ (wf..(wf + n - 1))
                    /\ \A x \in DOMAIN buffer'.pending :
                           buffer'.pending[x] = pend[x]
                    /\ buffer'.waiting_for = wf + n]_vars

\* Numbers 1, 2 and 3 arrived before 0: the submission of 0 released all four
\* payloads in one call.
C23_Witness ==
    /\ cpc = "buffer"
    /\ buffer.waiting_for = 4
    /\ Len(rel) = 4
    /\ DOMAIN buffer.pending = {}

\* What imap yields for the chunks put before the k-th one.
Before(k) == SeqMap(Concat(SubSeq(Chunks, 1, k - 1)))

\* imap is blocked and nothing in the pool can move any more.
Stuck == InImap /\ ~ENABLED Next

C25_CompletedCallLeavesNothing ==
    /\ [](cpc = "returned" =>
              /\ \A j \in 1..Len(work_queue) : work_queue[j] = NoneItem
              /\ \A w \in Workers : held[w] = NoneItem /\ wpc[w] # "call"
              /\ results_queue = <<>>
              /\ DOMAIN buffer.pending = {}
              /\ buffer.waiting_for = data_cnt
              /\ finished_cnt = data_cnt
              /\ rel = <<>> /\ cur = <<>>)
    /\ [][calls' # calls => (work_queue' = <<>> /\ results_queue' = <<>>)]_vars

\* A call of three chunks has completed on two workers, both still running.
C25_Witness ==
    /\ cpc = "returned"
    /\ procs = 2
    /\ data_cnt = 3
    /\ buffer.waiting_for = 3
    /\ \A w \in Workers : wpc[w] = "get"

\* The chunks put by the call whose result has not been put on the results
\* queue.
InFlight ==
    {k \in 1..Len(dispatched) :
        /\ \A j \in 1..Len(results_queue) : results_queue[j].i # dispatched[k].i
        /\ dispatched[k].i \notin DOMAIN buffer.pending
        /\ dispatched[k].i >= buffer.waiting_for}

\* The results that wait on the results queue or in the Buffer.
Waiting == Len(results_queue) + Cardinality(DOMAIN buffer.pending)

ResultsPileUp ==
    /\ procs = 1
    /\ InImap
    /\ Waiting = 3
====
